---------------------------- MODULE Spec2Model ----------------------------
(***************************************************************************)
(* A model of demo/Tacotron2/exports/export_waveglow_onnx.py: the 1-D to   *)
(* 2-D rewrite of a WaveGlow model (convert_1d_to_2d_), the traced         *)
(* inference function (infer_onnx), the export driver (export_onnx).       *)
(*                                                                         *)
(* Python objects are records: an attribute is a field, and an attribute   *)
(* that was never set is a field that is absent.  A tensor of parameters   *)
(* is a shape and a seed: its element at a flat row-major index is         *)
(* Gen(seed, index).  A tensor of activations in infer_onnx is a strided   *)
(* view (shape, stride) over a chain of storages, as in torch.             *)
(* Scalars that are floats in the program (sigma) are counted in tenths.   *)
(***************************************************************************)
EXTENDS Integers, Sequences, FiniteSets, TLC

VARIABLES pc, err, args, glow, loc, trace

vars == <<pc, err, args, glow, loc, trace>>

-----------------------------------------------------------------------------
(* Bounds of the model.                                                    *)

MaxFlows == 12
MaxEvery == 4
MaxEarly == 2
MaxZMissing == 2
MaxLayers == 2
MaxRwFlows == 2
MaxCh == 2
MaxKernel == 2
MaxStride == 2
MaxDilation == 2
MaxPad == 1
MaxLen == 3
MaxSeed == 1
MaxKernelExtra == 1
MaxUpStride == 8
MaxGroup == 8
MaxTime == 2
MaxMel == 2
MaxBatch == 1
MaxDrvFlows == 2

(* Constants of the program.                                               *)

SigmaCli == 6
SigmaInfer == 9
MelDim == 80
GroupDiv == 8
DrvMel == 80
DrvFrames == 620
DrvStride == 256
DrvGroup == 8
Opset == 10

(* The failures of the program, by the names the specification gives the   *)
(* conditions.  Python raises AttributeError for the read of W_inverse on  *)
(* a module that never ran infer, IndexError for an index past the end of  *)
(* a ModuleList, and torch raises RuntimeError for a view whose size does  *)
(* not fit and for a convolution whose input has the wrong number of       *)
(* channels.  ShapeMismatch and BudgetExceeded are raised nowhere in the   *)
(* source.                                                                 *)
NoError == "none"
InverseNotMaterialized == "AttributeError: W_inverse"
IndexError == "IndexError"
RuntimeError == "RuntimeError"
ShapeMismatch == "ShapeMismatch"
BudgetExceeded == "BudgetExceeded"

-----------------------------------------------------------------------------
(* Arithmetic and sequences.                                               *)

Max(a, b) == IF a >= b THEN a ELSE b
Min(a, b) == IF a <= b THEN a ELSE b

RECURSIVE Prod(_)
Prod(s) == IF s = <<>> THEN 1 ELSE Head(s) * Prod(Tail(s))

RECURSIVE SumSeq(_)
SumSeq(s) == IF s = <<>> THEN 0 ELSE Head(s) + SumSeq(Tail(s))

(* Python's floor division and modulo for a positive divisor.              *)
FloorDiv(a, b) == a \div b
PyMod(a, b) == a % b

(* Python's a[start:stop] on a sequence of length n: the bounds of the     *)
(* slice, 0 based, after negative bounds are counted from the end and both *)
(* are clamped to 0..n.                                                    *)
PyClamp(i, n) == IF i < 0 THEN Max(i + n, 0) ELSE Min(i, n)
PySlice(s, start, stop) ==
    LET n == Len(s)
        lo == PyClamp(start, n)
        hi == PyClamp(stop, n)
    IN  IF hi <= lo THEN <<>> ELSE SubSeq(s, lo + 1, hi)
PySliceLen(n, start, stop) == Max(PyClamp(stop, n) - PyClamp(start, n), 0)

(* A parameter tensor: a shape and the seed of its values.                 *)
Gen(seed, i) == (((i + 1) * (i + seed + 2) * (seed + 3)) % 7) - 3
Param(shape, seed) == [shape |-> shape, seed |-> seed]
Size(t, d) == t.shape[d + 1]


-----------------------------------------------------------------------------
(* The torch modules the export reads and builds.                          *)

(* The seed of a freshly constructed module's parameters (torch draws them *)
(* at random).                                                             *)
FreshSeed == 0 - 1

Conv1d(in_c, out_c, k, s, d, p, wseed, bseed) ==
    [cls |-> "Conv1d",
     weight |-> Param(<<out_c, in_c, k>>, wseed),
     bias |-> Param(<<out_c>>, bseed),
     stride |-> <<s>>, dilation |-> <<d>>, padding |-> <<p>>]

TorchConv2d(in_c, out_c, kernel, stride, dilation, padding) ==
    [cls |-> "Conv2d", in_channels |-> in_c, out_channels |-> out_c,
     kernel_size |-> kernel,
     weight |-> Param(<<out_c, in_c, kernel[1], kernel[2]>>, FreshSeed),
     bias |-> Param(<<out_c>>, FreshSeed),
     stride |-> stride, dilation |-> dilation, padding |-> padding]

ConvTranspose1d(in_c, out_c, k, s, wseed, bseed) ==
    [cls |-> "ConvTranspose1d",
     weight |-> Param(<<in_c, out_c, k>>, wseed),
     bias |-> Param(<<out_c>>, bseed),
     kernel_size |-> <<k>>, stride |-> <<s>>]

TorchConvTranspose2d(in_c, out_c, kernel, stride) ==
    [cls |-> "ConvTranspose2d", in_channels |-> in_c, out_channels |-> out_c,
     kernel_size |-> kernel,
     weight |-> Param(<<in_c, out_c, kernel[1], kernel[2]>>, FreshSeed),
     bias |-> Param(<<out_c>>, FreshSeed),
     stride |-> stride]

(* dst.data[:,:,:,0] = src.data for a dst whose last axis has size 1: every *)
(* element of dst is overwritten, the element at [a,b,c,0] by src[a,b,c],   *)
(* which has the same flat index.                                           *)
AssignLast0(dst, src) ==
    IF dst.shape = src.shape \o <<1>> THEN [src EXCEPT !.shape = dst.shape]
    ELSE dst

Is2d(m) == m.cls \in {"Conv2d", "ConvTranspose2d"}

(* convert_convinv_1d_to_2d: the read of convinv.W_inverse fails on a       *)
(* module that has no such attribute.                                       *)
convert_convinv_1d_to_2d_unchecked(convinv) ==
    LET w == IF "W_inverse" \in DOMAIN convinv THEN convinv.W_inverse
             ELSE convinv.conv.weight
        conv2d == TorchConv2d(Size(w, 1), Size(w, 0), <<1, 1>>,
                              <<1, 1>>, <<1, 1>>, <<0, 0>>)
    IN  [err |-> NoError,
         val |-> [conv2d EXCEPT !.weight = AssignLast0(@, w),
                                !.bias = "None"]]

convert_convinv_1d_to_2d(convinv) ==
    IF "W_inverse" \notin DOMAIN convinv
    THEN [err |-> InverseNotMaterialized, val |-> convinv]
    ELSE LET w == convinv.W_inverse
             conv2d == TorchConv2d(Size(w, 1), Size(w, 0), <<1, 1>>,
                                   <<1, 1>>, <<1, 1>>, <<0, 0>>)
         IN  [err |-> NoError,
              val |-> [conv2d EXCEPT !.weight = AssignLast0(@, w),
                                     !.bias = "None"]]

(* convert_conv_1d_to_2d                                                    *)
convert_conv_1d_to_2d_unit_stride(conv1d) ==
    LET conv2d == TorchConv2d(Size(conv1d.weight, 1), Size(conv1d.weight, 0),
                              <<Size(conv1d.weight, 2), 1>>,
                              <<1, 1>>,
                              <<conv1d.dilation[1], 1>>,
                              <<conv1d.padding[1], 0>>)
    IN  [conv2d EXCEPT !.weight = AssignLast0(@, conv1d.weight),
                       !.bias = conv1d.bias]

convert_conv_1d_to_2d(conv1d) ==
    LET conv2d == TorchConv2d(Size(conv1d.weight, 1), Size(conv1d.weight, 0),
                              <<Size(conv1d.weight, 2), 1>>,
                              <<conv1d.stride[1], 1>>,
                              <<conv1d.dilation[1], 1>>,
                              <<conv1d.padding[1], 0>>)
    IN  [conv2d EXCEPT !.weight = AssignLast0(@, conv1d.weight),
                       !.bias = conv1d.bias]

(* convert_WN_1d_to_2d_: the stage after the call, and the error that ended *)
(* the call.  The third loop runs over the indices of res_skip_layers and   *)
(* reads cond_layers at them: an index past the end of cond_layers raises   *)
(* IndexError with everything before it already replaced.                   *)
convert_WN_1d_to_2d_(WN) ==
    LET nres == Len(WN.res_skip_layers)
        ncond == Len(WN.cond_layers)
        done == [WN EXCEPT
                   !.start = convert_conv_1d_to_2d(@),
                   !.end = convert_conv_1d_to_2d(@),
                   !.in_layers = [i \in 1..Len(@) |-> convert_conv_1d_to_2d(@[i])],
                   !.res_skip_layers =
                       [i \in 1..Len(@) |-> convert_conv_1d_to_2d(@[i])],
                   !.cond_layers =
                       [i \in 1..Len(@) |->
                           IF i <= nres THEN convert_conv_1d_to_2d(@[i])
                           ELSE @[i]]]
    IN  [err |-> IF nres > ncond THEN IndexError ELSE NoError, val |-> done]

(* The upsample part of convert_1d_to_2d_.                                  *)
convert_upsample(up) ==
    LET upsample == TorchConvTranspose2d(Size(up.weight, 0), Size(up.weight, 1),
                                         <<Size(up.weight, 2), 1>>,
                                         <<up.stride[1], 1>>)
    IN  [upsample EXCEPT !.weight = AssignLast0(@, up.weight),
                         !.bias = up.bias]

-----------------------------------------------------------------------------
(* The model the loader returns: waveglow/model.py is not part of the      *)
(* sources, and its constructor and its infer are modelled from the        *)
(* specification's data model.                                              *)

Invertible1x1Conv(c, seed) ==
    [cls |-> "Invertible1x1Conv", conv |-> [weight |-> Param(<<c, c, 1>>, seed)]]

(* A flow stage with the given numbers of in, res-skip and conditioning    *)
(* convs.                                                                   *)
WN(n_in, n_cond, nin, nres, ncond) ==
    [start |-> Conv1d(n_in, 2, 1, 1, 1, 0, 1, 1),
     end |-> Conv1d(2, 2 * n_in, 1, 1, 1, 0, 2, 2),
     in_layers |-> [i \in 1..nin |->
                      Conv1d(2, 4, 3, 1, 2 ^ (i - 1), 2 ^ (i - 1), 3, 3)],
     res_skip_layers |-> [i \in 1..nres |-> Conv1d(2, 4, 1, 1, 1, 0, 4, 4)],
     cond_layers |-> [i \in 1..ncond |-> Conv1d(n_cond, 4, 1, 1, 1, 0, 5, 5)]]

(* The channels left at flow k (0 based) of a model with the given         *)
(* parameters: n_early_size fewer for every k' in 1..k that is a multiple   *)
(* of n_early_every.                                                        *)
RemainingAt(n_group, every, size, k) == n_group - (k \div every) * size
HalfAt(n_group, every, size, k) ==
    (n_group \div 2) - (k \div every) * (size \div 2)

WaveGlow(p) ==
    [upsample |-> ConvTranspose1d(p.n_mel, p.n_mel, p.kernel, p.stride, 6, 6),
     WN |-> [i \in 1..p.n_flows |->
               WN(HalfAt(p.n_group, p.n_early_every, p.n_early_size, i - 1),
                  p.n_mel * p.n_group, p.nin, p.nres, p.ncond)],
     convinv |-> [i \in 1..p.n_flows |->
                    Invertible1x1Conv(
                      RemainingAt(p.n_group, p.n_early_every, p.n_early_size, i - 1),
                      i)],
     n_flows |-> p.n_flows,
     n_group |-> p.n_group,
     n_early_every |-> p.n_early_every,
     n_early_size |-> p.n_early_size,
     n_remaining_channels |->
         RemainingAt(p.n_group, p.n_early_every, p.n_early_size, p.n_flows - 1),
     forward |-> "WaveGlow.forward",
     dtype |-> "float"]

(* Invertible1x1Conv.infer computes the inverse on its first call and      *)
(* keeps it as the attribute W_inverse.                                     *)
Materialize(convinv) ==
    IF "W_inverse" \in DOMAIN convinv THEN convinv
    ELSE convinv @@ [W_inverse |->
                       [shape |-> convinv.conv.weight.shape,
                        seed |-> convinv.conv.weight.seed,
                        inverse |-> TRUE]]

HasInverse(m) == "W_inverse" \in DOMAIN m

-----------------------------------------------------------------------------
(* convert_1d_to_2d_(glow), one step per statement of its body.  loc.i is  *)
(* the loop index (1 based), loc.had_inverse what each convinv held when   *)
(* the call began, loc.wn_done the number of convert_WN_1d_to_2d_ calls    *)
(* that returned.                                                          *)

RewriteLocals(g) ==
    [i |-> 0, wn_done |-> 0,
     had_inverse |-> [k \in 1..Len(g.convinv) |-> HasInverse(g.convinv[k])]]

ConvertUpsample ==
    /\ pc = "cv_upsample"
    /\ glow' = [glow EXCEPT !.upsample = convert_upsample(@)]
    /\ loc' = [loc EXCEPT !.i = 1]
    /\ pc' = "cv_WN"
    /\ UNCHANGED <<err, args, trace>>

ConvertWN ==
    /\ pc = "cv_WN"
    /\ LET r == convert_WN_1d_to_2d_(glow.WN[loc.i])
       IN  /\ glow' = [glow EXCEPT !.WN[loc.i] = r.val]
           /\ IF r.err # NoError
              THEN /\ pc' = "failed"
                   /\ err' = r.err
                   /\ loc' = loc
              ELSE /\ err' = err
                   /\ IF loc.i < Len(glow.WN)
                      THEN /\ pc' = "cv_WN"
                           /\ loc' = [loc EXCEPT !.i = @ + 1, !.wn_done = @ + 1]
                      ELSE /\ pc' = "cv_convinv"
                           /\ loc' = [loc EXCEPT !.i = 1, !.wn_done = @ + 1]
    /\ UNCHANGED <<args, trace>>

ConvertConvinv ==
    /\ pc = "cv_convinv"
    /\ LET r == convert_convinv_1d_to_2d(glow.convinv[loc.i])
       IN  IF r.err # NoError
           THEN /\ pc' = "failed"
                /\ err' = r.err
                /\ UNCHANGED <<glow, loc>>
           ELSE /\ glow' = [glow EXCEPT !.convinv[loc.i] = r.val]
                /\ err' = err
                /\ IF loc.i < Len(glow.convinv)
                   THEN /\ pc' = "cv_convinv"
                        /\ loc' = [loc EXCEPT !.i = @ + 1]
                   ELSE /\ pc' = "converted"
                        /\ loc' = loc
    /\ UNCHANGED <<args, trace>>

Rewrite == ConvertUpsample \/ ConvertWN \/ ConvertConvinv

(* The models convert_1d_to_2d_ is called on: a WaveGlow with the same     *)
(* number N of in, res-skip and conditioning convs in every stage, whose   *)
(* last j mixing modules have run infer.                                   *)
RewriteParams ==
    [n_mel : 1..MaxMel, kernel : 1..MaxKernel, stride : {1},
     n_flows : 1..MaxRwFlows, n_group : {2}, n_early_every : {1},
     n_early_size : {0}, nin : 0..MaxLayers, nres : 0..MaxLayers,
     ncond : 0..MaxLayers]

MaterializeFrom(g, j) ==
    [g EXCEPT !.convinv =
        [k \in 1..Len(@) |-> IF k > j THEN Materialize(@[k]) ELSE @[k]]]

RewriteInitWith(P) ==
    /\ pc = "cv_upsample"
    /\ err = NoError
    /\ args = "None"
    /\ trace = <<>>
    /\ \E p \in P : \E j \in 0..p.n_flows :
          /\ glow = MaterializeFrom(WaveGlow(p), j)
          /\ loc = RewriteLocals(glow)

RewriteInit ==
    RewriteInitWith({p \in RewriteParams : p.nin = p.nres /\ p.nres = p.ncond})

StageInit == RewriteInitWith(RewriteParams)

RewriteNext == Rewrite

SpecRewrite == RewriteInit /\ [][RewriteNext]_vars

SpecStage == StageInit /\ [][RewriteNext]_vars

-----------------------------------------------------------------------------
(* Activation tensors: a strided view over a storage, as torch keeps them. *)
(* shape and stride are per axis; hist lists the views that contiguous()   *)
(* copied into a new storage, oldest first: the view is over the storage   *)
(* the last of them produced, and the first of them is over the storage    *)
(* of the tensor the chain began with.  Indices are 0 based.               *)

ContigStrides(shape) ==
    [d \in 1..Len(shape) |->
        Prod([e \in 1..(Len(shape) - d) |-> Max(shape[d + e], 1)])]

NewTensor(shape) ==
    [shape |-> shape, stride |-> ContigStrides(shape), hist |-> <<>>]

Numel(t) == Prod(t.shape)

Dot(idx, stride) == SumSeq([d \in 1..Len(idx) |-> idx[d] * stride[d]])

Unravel(o, shape) ==
    LET cs == ContigStrides(shape)
    IN  [d \in 1..Len(shape) |-> (o \div cs[d]) % Max(shape[d], 1)]

(* Tensor.is_contiguous()                                                  *)
RECURSIVE ContigFrom(_, _, _)
ContigFrom(t, d, z) ==
    IF d = 0 THEN TRUE
    ELSE IF t.shape[d] = 1 THEN ContigFrom(t, d - 1, z)
    ELSE IF t.stride[d] = z THEN ContigFrom(t, d - 1, z * t.shape[d])
    ELSE FALSE
IsContiguous(t) == Numel(t) = 0 \/ ContigFrom(t, Len(t.shape), 1)

(* Tensor.contiguous(): the tensor itself when it is contiguous, else a    *)
(* copy in a new storage.                                                  *)
Contiguous(t) ==
    IF IsContiguous(t) THEN t
    ELSE [shape |-> t.shape, stride |-> ContigStrides(t.shape),
          hist |-> Append(t.hist, [shape |-> t.shape, stride |-> t.stride])]

(* The offset, in the storage the chain began with, of the element the     *)
(* view has at idx.                                                        *)
RECURSIVE Through(_, _)
Through(o, h) ==
    IF h = <<>> THEN o
    ELSE LET f == h[Len(h)]
         IN  Through(Dot(Unravel(o, f.shape), f.stride), SubSeq(h, 1, Len(h) - 1))
SrcOffset(t, idx) == Through(Dot(idx, t.stride), t.hist)

(* t[..., :stop, ...] on axis d (0 based): a view of the first elements.    *)
SliceTo(t, d, stop) ==
    [t EXCEPT !.shape[d + 1] = PySliceLen(@, 0, stop)]

(* torch.squeeze(t, d) and torch.unsqueeze(t, d)                           *)
DropAt(s, i) == [j \in 1..(Len(s) - 1) |-> IF j < i THEN s[j] ELSE s[j + 1]]
InsertAt(s, i, x) ==
    [j \in 1..(Len(s) + 1) |-> IF j < i THEN s[j] ELSE IF j = i THEN x ELSE s[j - 1]]
Squeeze(t, d) ==
    IF t.shape[d + 1] # 1 THEN t
    ELSE [t EXCEPT !.shape = DropAt(@, d + 1), !.stride = DropAt(@, d + 1)]
Unsqueeze(t, d) ==
    LET n == Len(t.shape)
        st == IF d >= n THEN 1 ELSE t.shape[d + 1] * t.stride[d + 1]
    IN  [t EXCEPT !.shape = InsertAt(@, d + 1, 1), !.stride = InsertAt(@, d + 1, st)]

(* Tensor.permute(perm), perm 0 based                                      *)
Permute(t, perm) ==
    [t EXCEPT !.shape = [i \in 1..Len(perm) |-> t.shape[perm[i] + 1]],
              !.stride = [i \in 1..Len(perm) |-> t.stride[perm[i] + 1]]]

(* Tensor.view(shape): torch's computeStride.  The strides of the old view *)
(* are read in chunks of axes that lie contiguously in memory, and every   *)
(* chunk must be covered by whole axes of the new shape.                   *)
RECURSIVE CSInner(_, _)
CSInner(st, new) ==
    IF st.vd >= 1 /\ (st.vn < st.tn \/ new[st.vd] = 1)
    THEN CSInner([st EXCEPT !.ns[st.vd] = st.vn * st.cbs,
                            !.vn = st.vn * new[st.vd],
                            !.vd = st.vd - 1], new)
    ELSE st

RECURSIVE CSOuter(_, _, _, _, _)
CSOuter(td, st, oshape, ostride, new) ==
    IF td = 0 THEN st
    ELSE LET s1 == [st EXCEPT !.tn = @ * oshape[td]]
             boundary == \/ td = 1
                         \/ /\ oshape[td - 1] # 1
                            /\ ostride[td - 1] # s1.tn * s1.cbs
         IN  IF ~boundary THEN CSOuter(td - 1, s1, oshape, ostride, new)
             ELSE LET s2 == CSInner(s1, new)
                  IN  IF s2.vn # s2.tn THEN [s2 EXCEPT !.ok = FALSE]
                      ELSE IF td > 1
                      THEN CSOuter(td - 1,
                                   [s2 EXCEPT !.cbs = ostride[td - 1],
                                              !.tn = 1, !.vn = 1],
                                   oshape, ostride, new)
                      ELSE s2

ComputeStride(oshape, ostride, new) ==
    IF Prod(oshape) = 0
    THEN [ok |-> TRUE,
          stride |-> IF oshape = new THEN ostride ELSE ContigStrides(new)]
    ELSE LET st0 == [vd |-> Len(new), cbs |-> ostride[Len(ostride)],
                     tn |-> 1, vn |-> 1, ok |-> TRUE,
                     ns |-> [d \in 1..Len(new) |-> 0]]
             st == CSOuter(Len(oshape), st0, oshape, ostride, new)
         IN  [ok |-> st.ok /\ st.vd = 0, stride |-> st.ns]

View(t, new) ==
    IF Prod(new) # Numel(t) THEN [err |-> RuntimeError, val |-> t]
    ELSE LET r == ComputeStride(t.shape, t.stride, new)
         IN  IF r.ok THEN [err |-> NoError,
                           val |-> [t EXCEPT !.shape = new, !.stride = r.stride]]
             ELSE [err |-> RuntimeError, val |-> t]

-----------------------------------------------------------------------------
(* infer_onnx(self, spect, z, sigma), one operator per part of its body.   *)
(* Each takes the model g and the locals l and gives the locals after it:  *)
(* l.at is the part to run next, l.err the error that ended the call and   *)
(* l.failed_at the part that raised it.                                    *)
(* spect is a strided view; audio and z are kept by their sizes, z with    *)
(* the original index of each channel it still holds.  WN[k] is called as  *)
(* the specification describes it and returns twice the channels of        *)
(* audio_0; convinv[k] is the Conv2d the rewrite built.  l.inj and l.odd   *)
(* record what the loop did: every injection (stage, channels z held,      *)
(* channels taken) and every stage that was entered with an odd number of  *)
(* channels and ran to its end.                                            *)

InferLocals(spect_shape, zb, zc, zt, sigma) ==
    [at |-> "upsample", err |-> NoError, failed_at |-> "",
     spect |-> NewTensor(spect_shape),
     mel_time |-> spect_shape[3],
     up |-> <<>>, trimmed |-> <<>>,
     time_cutoff |-> 0, length_spect_group |-> 0, batch_size |-> 0,
     z |-> [batch |-> zb, ch |-> [i \in 1..zc |-> i], time |-> zt],
     z_channels |-> zc, zrem0 |-> 0,
     audio |-> [batch |-> 0, ch |-> 0, time |-> 0],
     sigma |-> sigma, scale |-> 0,
     k |-> 0, inj |-> <<>>, odd |-> <<>>,
     out |-> <<>>]

Fail(l, e) == [l EXCEPT !.at = "failed", !.err = e, !.failed_at = l.at]

(* The output of ConvTranspose2d with kernel (K, 1) and stride (S, 1) on   *)
(* [B, C, T, 1]: a new tensor [B, out_channels, (T - 1) * S + K, 1].       *)
UpsampleOut(up, x) ==
    NewTensor(<<x.shape[1], up.out_channels,
                (x.shape[3] - 1) * up.stride[1] + (up.kernel_size[1] - 1) + 1,
                (x.shape[4] - 1) * up.stride[2] + (up.kernel_size[2] - 1) + 1>>)

InferUpsample(g, l) ==
    LET y == UpsampleOut(g.upsample, l.spect)
    IN  [l EXCEPT !.spect = y, !.up = y.shape, !.at = "trim"]

InferTrim(g, l) ==
    LET time_cutoff == g.upsample.kernel_size[1] - g.upsample.stride[1]
        y == SliceTo(l.spect, 2, 0 - time_cutoff)
    IN  [l EXCEPT !.time_cutoff = time_cutoff, !.spect = y,
                  !.trimmed = y.shape, !.at = "group"]

InferGroup(g, l) ==
    LET length_spect_group == FloorDiv(l.spect.shape[3], GroupDiv)
        mel_dim == MelDim
        batch_size == l.spect.shape[1]
        s1 == Squeeze(l.spect, 3)
        v1 == View(s1, <<batch_size, mel_dim, length_spect_group, g.n_group>>)
        s2 == Contiguous(Permute(v1.val, <<0, 2, 1, 3>>))
        v2 == View(s2, <<batch_size, length_spect_group, g.n_group * mel_dim>>)
        s3 == Contiguous(Unsqueeze(Permute(v2.val, <<0, 2, 1>>), 3))
        l1 == [l EXCEPT !.length_spect_group = length_spect_group,
                        !.batch_size = batch_size]
    IN  IF v1.err # NoError THEN Fail(l1, v1.err)
        ELSE IF v2.err # NoError THEN Fail(l1, v2.err)
        ELSE [l1 EXCEPT !.spect = s3, !.at = "partition"]

InferPartition(g, l) ==
    LET audio_ch == PySliceLen(Len(l.z.ch), 0, g.n_remaining_channels)
        zrem == PySlice(l.z.ch, g.n_remaining_channels, g.n_group)
    IN  [l EXCEPT !.audio = [batch |-> l.z.batch, ch |-> audio_ch,
                             time |-> l.z.time],
                  !.z.ch = zrem, !.zrem0 = Len(zrem),
                  !.scale = l.sigma,
                  !.k = g.n_flows - 1,
                  !.at = IF g.n_flows >= 1 THEN "flow" ELSE "final"]

(* if k % self.n_early_every == 0 and k > 0                                *)
InjectAtEveryMultiple(g, k) == PyMod(k, g.n_early_every) = 0

InjectAt(g, k) == PyMod(k, g.n_early_every) = 0 /\ k > 0

(* self.convinv[k](audio), a torch.nn.Conv2d after the rewrite: forward     *)
(* raises RuntimeError unless the input has in_channels channels and the    *)
(* kernel fits its time axis.                                               *)
ConvinvAccepts(m, ch, time) ==
    /\ ch = m.in_channels
    /\ time + 2 * m.padding[1] - m.dilation[1] * (m.kernel_size[1] - 1) - 1 >= 0

(* One pass of the loop body, for k = l.k.  An exception leaves the locals *)
(* as they were when the stage began.                                       *)
InferFlow(g, l) ==
    LET k == l.k
        c == l.audio.ch
        n_half == c \div 2
        audio_0 == PySliceLen(c, 0, n_half)
        audio_1 == PySliceLen(c, n_half, n_half + n_half)
        output == 2 * audio_0
        s == PySliceLen(output, n_half, n_half + n_half)
        b == PySliceLen(output, 0, n_half)
        cat == audio_0 + audio_1
        mixed == g.convinv[k + 1].out_channels
        taken == PySlice(l.z.ch, 0, g.n_early_size)
        l1 == [l EXCEPT !.odd = IF c % 2 = 1 THEN Append(@, k) ELSE @]
        l2 == IF InjectAt(g, k)
              THEN [l1 EXCEPT !.audio.ch = Len(taken) + mixed,
                              !.z.ch = PySlice(@, g.n_early_size, g.n_group),
                              !.inj = Append(@, [k |-> k, held |-> Len(l.z.ch),
                                                 got |-> Len(taken)])]
              ELSE [l1 EXCEPT !.audio.ch = mixed]
    IN  IF ~ConvinvAccepts(g.convinv[k + 1], cat, l.audio.time)
        THEN Fail(l, RuntimeError)
        ELSE [l2 EXCEPT !.k = k - 1, !.at = IF k = 0 THEN "final" ELSE "flow"]

InferFinal(g, l) ==
    LET numel == l.audio.batch * l.audio.ch * l.audio.time
        shape == <<l.batch_size, l.length_spect_group * g.n_group>>
    IN  IF Prod(shape) # numel THEN Fail(l, RuntimeError)
        ELSE [l EXCEPT !.out = shape, !.at = "done"]

InferStep(g, l) ==
    CASE l.at = "upsample" -> InferUpsample(g, l)
      [] l.at = "trim" -> InferTrim(g, l)
      [] l.at = "group" -> InferGroup(g, l)
      [] l.at = "partition" -> InferPartition(g, l)
      [] l.at = "flow" -> InferFlow(g, l)
      [] l.at = "final" -> InferFinal(g, l)
      [] OTHER -> l

RECURSIVE InferRun(_, _)
InferRun(g, l) ==
    IF l.at \in {"done", "failed"} THEN l ELSE InferRun(g, InferStep(g, l))

infer_onnx(g, spect_shape, zb, zc, zt, sigma) ==
    InferRun(g, InferLocals(spect_shape, zb, zc, zt, sigma))

-----------------------------------------------------------------------------
(* A call of infer_onnx on a rewritten model, one action per part.         *)

Apply(l) ==
    /\ loc' = l
    /\ pc' = l.at
    /\ err' = l.err
    /\ UNCHANGED <<args, glow, trace>>

Upsample == pc = "upsample" /\ Apply(InferUpsample(glow, loc))
Trim == pc = "trim" /\ Apply(InferTrim(glow, loc))
Group == pc = "group" /\ Apply(InferGroup(glow, loc))
Partition == pc = "partition" /\ Apply(InferPartition(glow, loc))
Flow == pc = "flow" /\ Apply(InferFlow(glow, loc))
Final == pc = "final" /\ Apply(InferFinal(glow, loc))

InferNext == Upsample \/ Trim \/ Group \/ Partition \/ Flow \/ Final

(* The model export_onnx holds when it traces: loaded, every inverse       *)
(* computed, rewritten, cast to half under fp16, infer_onnx bound as       *)
(* forward.  It is taken for models whose rewrite raises nothing (as many  *)
(* cond_layers as res_skip_layers).                                        *)
ExportReady(p, fp16) ==
    LET g == MaterializeFrom(WaveGlow(p), 0)
    IN  [g EXCEPT !.upsample = convert_upsample(@),
                  !.WN = [i \in 1..Len(@) |-> convert_WN_1d_to_2d_(@[i]).val],
                  !.convinv = [i \in 1..Len(@) |-> convert_convinv_1d_to_2d(@[i]).val],
                  !.dtype = IF fp16 THEN "half" ELSE @,
                  !.forward = "infer_onnx"]

Evens(n) == {i \in 1..n : i % 2 = 0}

(* Calls that vary the conditioning input and the upsampling: a model of   *)
(* one flow, z with n_group channels.                                      *)
UpsampleCases ==
    {[p |-> [n_mel |-> m, kernel |-> s + e, stride |-> s, n_flows |-> 1,
             n_group |-> gr, n_early_every |-> 1, n_early_size |-> 0,
             nin |-> 1, nres |-> 1, ncond |-> 1],
      batch |-> b, time |-> t, zc |-> gr, zt |-> (t * s) \div gr] :
        m \in (1..MaxMel) \cup {MelDim}, s \in 1..MaxUpStride,
        e \in 0..MaxKernelExtra, gr \in Evens(MaxGroup),
        b \in 1..MaxBatch, t \in 1..MaxTime}

(* Calls that vary the flows and z: 80 mel channels, 8 groups, t upsampled *)
(* groups of 8 steps; z with up to MaxZMissing channels fewer than         *)
(* n_group, and with t or t + 1 time steps.                                *)
FlowCases ==
    {[p |-> [n_mel |-> MelDim, kernel |-> 2 * GroupDiv, stride |-> GroupDiv,
             n_flows |-> nf, n_group |-> DrvGroup, n_early_every |-> ev,
             n_early_size |-> es, nin |-> 1, nres |-> 1, ncond |-> 1],
      batch |-> 1, time |-> t, zc |-> DrvGroup - zm, zt |-> t + ze] :
        nf \in 1..MaxFlows, ev \in 1..MaxEvery, es \in 0..MaxEarly,
        zm \in 0..MaxZMissing, t \in {1, 3}, ze \in {0, 1}}

ValidModel(p) ==
    /\ RemainingAt(p.n_group, p.n_early_every, p.n_early_size, p.n_flows - 1) >= 1
    /\ HalfAt(p.n_group, p.n_early_every, p.n_early_size, p.n_flows - 1) >= 1

InferCases == {c \in UpsampleCases \cup FlowCases : ValidModel(c.p)}

InferInit ==
    /\ pc = "upsample"
    /\ err = NoError
    /\ args = "None"
    /\ trace = <<>>
    /\ \E c \in InferCases, fp16 \in BOOLEAN :
          /\ glow = ExportReady(c.p, fp16)
          /\ loc = InferLocals(<<c.batch, c.p.n_mel, c.time, 1>>,
                               c.batch, c.zc, c.zt, SigmaInfer)

SpecInfer == InferInit /\ [][InferNext]_vars

-----------------------------------------------------------------------------
(* What the convolutions compute, on integer tensors.  A result is a       *)
(* shape and its elements in row-major order.                              *)

PVal(t, idx) == Gen(t.seed, Dot(idx, ContigStrides(t.shape)))

OutLen(n, k, s, d, p) == ((n + 2 * p - d * (k - 1) - 1) \div s) + 1
FitsKernel(n, k, d, p) == n + 2 * p - d * (k - 1) - 1 >= 0

(* torch.nn.Conv1d.forward on x of shape [1, C, T]                         *)
Conv1dForward(m, x) ==
    LET O == Size(m.weight, 0)
        C == Size(m.weight, 1)
        K == Size(m.weight, 2)
        T == x.shape[3]
        s == m.stride[1]
        d == m.dilation[1]
        p == m.padding[1]
        n == OutLen(T, K, s, d, p)
        At(c, t) == IF t < 0 \/ t >= T THEN 0 ELSE PVal(x, <<0, c, t>>)
        Y(o, i) ==
            PVal(m.bias, <<o>>)
            + SumSeq([j \in 1..(C * K) |->
                 LET c == (j - 1) \div K
                     k == (j - 1) % K
                 IN  PVal(m.weight, <<o, c, k>>) * At(c, i * s + k * d - p)])
    IN  IF x.shape[2] # C \/ ~FitsKernel(T, K, d, p)
        THEN [err |-> RuntimeError, shape |-> <<>>, data |-> <<>>]
        ELSE [err |-> NoError, shape |-> <<1, O, n>>,
              data |-> [j \in 1..(O * n) |-> Y((j - 1) \div n, (j - 1) % n)]]

(* torch.nn.Conv2d.forward on x of shape [1, C, H, W]                      *)
Conv2dForward(m, x) ==
    LET O == Size(m.weight, 0)
        C == Size(m.weight, 1)
        KH == Size(m.weight, 2)
        KW == Size(m.weight, 3)
        H == x.shape[3]
        W == x.shape[4]
        nh == OutLen(H, KH, m.stride[1], m.dilation[1], m.padding[1])
        nw == OutLen(W, KW, m.stride[2], m.dilation[2], m.padding[2])
        At(c, h, w) == IF h < 0 \/ h >= H \/ w < 0 \/ w >= W THEN 0
                       ELSE PVal(x, <<0, c, h, w>>)
        Y(o, i, j) ==
            PVal(m.bias, <<o>>)
            + SumSeq([q \in 1..(C * KH * KW) |->
                 LET c == (q - 1) \div (KH * KW)
                     kh == ((q - 1) \div KW) % KH
                     kw == (q - 1) % KW
                 IN  PVal(m.weight, <<o, c, kh, kw>>)
                     * At(c, i * m.stride[1] + kh * m.dilation[1] - m.padding[1],
                             j * m.stride[2] + kw * m.dilation[2] - m.padding[2])])
    IN  IF \/ x.shape[2] # m.in_channels
           \/ ~FitsKernel(H, KH, m.dilation[1], m.padding[1])
           \/ ~FitsKernel(W, KW, m.dilation[2], m.padding[2])
        THEN [err |-> RuntimeError, shape |-> <<>>, data |-> <<>>]
        ELSE [err |-> NoError, shape |-> <<1, O, nh, nw>>,
              data |-> [q \in 1..(O * nh * nw) |->
                          Y((q - 1) \div (nh * nw),
                            ((q - 1) \div nw) % nh,
                            (q - 1) % nw)]]

(* x.unsqueeze(3) of a parameter tensor or of a result: the same elements  *)
(* under a shape with a trailing axis of size 1.                           *)
AddTrailingAxis(t) == [t EXCEPT !.shape = @ \o <<1>>]

-----------------------------------------------------------------------------
(* convert_conv_1d_to_2d on one convolution, and both convolutions         *)
(* applied to the same input.                                              *)

ConvConvert ==
    /\ pc = "conv_convert"
    /\ loc' = [loc EXCEPT !.conv2d = convert_conv_1d_to_2d(loc.conv1d)]
    /\ pc' = "conv_run1d"
    /\ UNCHANGED <<err, args, glow, trace>>

ConvRun1d ==
    /\ pc = "conv_run1d"
    /\ LET y == Conv1dForward(loc.conv1d, loc.x)
       IN  /\ loc' = [loc EXCEPT !.y1 = y]
           /\ err' = y.err
           /\ pc' = IF y.err = NoError THEN "conv_run2d" ELSE "failed"
    /\ UNCHANGED <<args, glow, trace>>

ConvRun2d ==
    /\ pc = "conv_run2d"
    /\ LET y == Conv2dForward(loc.conv2d, AddTrailingAxis(loc.x))
       IN  /\ loc' = [loc EXCEPT !.y2 = y]
           /\ err' = y.err
           /\ pc' = IF y.err = NoError THEN "conv_done" ELSE "failed"
    /\ UNCHANGED <<args, glow, trace>>

ConvNext == ConvConvert \/ ConvRun1d \/ ConvRun2d

ConvInit ==
    /\ pc = "conv_convert"
    /\ err = NoError
    /\ args = "None"
    /\ glow = "None"
    /\ trace = <<>>
    /\ \E o \in 1..MaxCh, c \in 1..MaxCh, k \in 1..MaxKernel,
          s \in 1..MaxStride, d \in 1..MaxDilation, p \in 0..MaxPad,
          t \in 1..MaxLen, ws \in 0..MaxSeed, xs \in 0..MaxSeed :
          loc = [conv1d |-> Conv1d(c, o, k, s, d, p, ws, ws + 1),
                 x |-> Param(<<1, c, t>>, xs),
                 conv2d |-> "None", y1 |-> "None", y2 |-> "None"]

SpecConv == ConvInit /\ [][ConvNext]_vars

-----------------------------------------------------------------------------
(* export_onnx(parser, args), one action per statement.  trace lists the   *)
(* steps taken, in order.                                                  *)

MaxSigma == 2
Sigmas == (1..MaxSigma) \cup {SigmaCli, SigmaInfer}

(* The checkpoints the loader is given.                                    *)
Checkpoints ==
    {p \in [n_mel : {DrvMel}, stride : {DrvStride},
            kernel : {DrvStride + e * DrvStride : e \in 0..MaxKernelExtra},
            n_flows : 1..MaxDrvFlows, n_group : {DrvGroup},
            n_early_every : {1}, n_early_size : {0, 2},
            nin : 1..MaxLayers, nres : 1..MaxLayers, ncond : 1..MaxLayers] :
        p.nin = p.nres /\ p.nres = p.ncond /\ ValidModel(p)}

Init ==
    /\ pc = "start"
    /\ err = NoError
    /\ args \in [waveglow : Checkpoints, fp16 : BOOLEAN, sigma_infer : Sigmas]
    /\ glow = "None"
    /\ loc = [i |-> 0, wn_done |-> 0, had_inverse |-> <<>>,
              mel |-> "None", z |-> "None", eager_sigma |-> "None",
              exported |-> "None"]
    /\ trace = <<>>

LoadModel ==
    /\ pc = "start"
    /\ glow' = WaveGlow(args.waveglow)
    /\ trace' = Append(trace, "load")
    /\ pc' = "loaded"
    /\ UNCHANGED <<err, args, loc>>

ExampleInputs ==
    /\ pc = "loaded"
    /\ LET dtype == IF args.fp16 THEN "half" ELSE "float"
           stride == DrvStride
           n_group == DrvGroup
           z_size2 == FloorDiv(DrvFrames * stride, n_group)
       IN  loc' = [loc EXCEPT
                     !.mel = [shape |-> <<1, DrvMel, DrvFrames>>, dtype |-> dtype],
                     !.z = [shape |-> <<1, n_group, z_size2, 1>>, dtype |-> dtype]]
    /\ pc' = "inputs"
    /\ UNCHANGED <<err, args, glow, trace>>

(* waveglow.infer(mel, sigma=args.sigma_infer): every mixing module        *)
(* computes and keeps its inverse.                                         *)
EagerInferSkipped ==
    /\ pc = "inputs"
    /\ glow' = glow
    /\ loc' = [loc EXCEPT !.eager_sigma = args.sigma_infer]
    /\ trace' = Append(trace, "infer")
    /\ pc' = "materialized"
    /\ UNCHANGED <<err, args>>

EagerInfer ==
    /\ pc = "inputs"
    /\ glow' = MaterializeFrom(glow, 0)
    /\ loc' = [loc EXCEPT !.eager_sigma = args.sigma_infer]
    /\ trace' = Append(trace, "infer")
    /\ pc' = "materialized"
    /\ UNCHANGED <<err, args>>

CallConvert ==
    /\ pc = "materialized"
    /\ loc' = [loc EXCEPT !.i = 0, !.wn_done = 0,
                          !.had_inverse = RewriteLocals(glow).had_inverse]
    /\ trace' = Append(trace, "convert")
    /\ pc' = "cv_upsample"
    /\ UNCHANGED <<err, args, glow>>

CastModel ==
    /\ pc = "converted"
    /\ glow' = IF args.fp16 THEN [glow EXCEPT !.dtype = "half"] ELSE glow
    /\ pc' = "cast"
    /\ UNCHANGED <<err, args, loc, trace>>

BindForward ==
    /\ pc = "cast"
    /\ glow' = [glow EXCEPT !.forward = "infer_onnx"]
    /\ trace' = Append(trace, "bind")
    /\ pc' = "bound"
    /\ UNCHANGED <<err, args, loc>>

(* torch.onnx.export(waveglow, (mel, z), ...) traces one call of            *)
(* waveglow.forward(mel, z): sigma is not among the arguments and takes    *)
(* the default of infer_onnx.                                              *)
TracedCall(g, mel, z) ==
    infer_onnx(g, mel.shape, z.shape[1], z.shape[2], z.shape[3], SigmaInfer)

Export ==
    /\ pc = "bound"
    /\ LET mel == AddTrailingAxis(loc.mel)
           r == TracedCall(glow, mel, loc.z)
       IN  /\ err' = r.err
           /\ IF r.err # NoError
              THEN /\ pc' = "failed"
                   /\ loc' = [loc EXCEPT !.mel = mel]
              ELSE /\ pc' = "exported"
                   /\ loc' = [loc EXCEPT
                        !.mel = mel,
                        !.exported = [file |-> "waveglow.onnx",
                                      opset_version |-> Opset,
                                      input_names |-> <<"mel", "z">>,
                                      output_names |-> <<"audio">>,
                                      sigma |-> r.scale,
                                      audio |-> r.out]]
    /\ trace' = Append(trace, "export")
    /\ UNCHANGED <<args, glow>>

Next ==
    \/ LoadModel
    \/ ExampleInputs
    \/ EagerInfer
    \/ CallConvert
    \/ Rewrite
    \/ CastModel
    \/ BindForward
    \/ Export

Spec == Init /\ [][Next]_vars

-----------------------------------------------------------------------------
(* Properties.                                                             *)

AllTwoD(stage) ==
    /\ Is2d(stage.start)
    /\ Is2d(stage.end)
    /\ \A i \in 1..Len(stage.in_layers) : Is2d(stage.in_layers[i])
    /\ \A i \in 1..Len(stage.res_skip_layers) : Is2d(stage.res_skip_layers[i])
    /\ \A i \in 1..Len(stage.cond_layers) : Is2d(stage.cond_layers[i])

FullyRewritten(g) ==
    /\ Is2d(g.upsample)
    /\ \A i \in 1..Len(g.WN) : AllTwoD(g.WN[i])
    /\ \A i \in 1..Len(g.convinv) : Is2d(g.convinv[i])

IsPrefix(s, t) == Len(s) <= Len(t) /\ \A i \in 1..Len(s) : s[i] = t[i]

DriverOrder == <<"load", "infer", "convert", "bind", "export">>

(* C1: in every run of export_onnx the steps are taken in the order load,  *)
(* eager infer, rewrite, bind, export, each at most once; the rewrite      *)
(* never starts, and never reaches a mixing module, while an inverse is    *)
(* missing; forward is bound and the exporter called only on a model that  *)
(* is rewritten throughout, and the exporter only after the binding.       *)
C1_FixedOrder ==
    /\ IsPrefix(trace, DriverOrder)
    /\ Len(trace) >= 3 =>
          /\ Len(loc.had_inverse) = Len(glow.convinv)
          /\ \A k \in 1..Len(loc.had_inverse) : loc.had_inverse[k]
    /\ pc \in {"cv_upsample", "cv_WN"} =>
          \A k \in 1..Len(glow.convinv) : HasInverse(glow.convinv[k])
    /\ Len(trace) >= 4 => FullyRewritten(glow)
    /\ Len(trace) >= 5 => glow.forward = "infer_onnx"

C1_Exported == pc = "exported" /\ trace = DriverOrder

NeverMaterialized ==
    /\ loc.had_inverse # <<>>
    /\ \A k \in 1..Len(loc.had_inverse) : ~loc.had_inverse[k]

(* C2: convert_1d_to_2d_ on a model none of whose mixing modules holds an  *)
(* inverse never completes: the call runs until the first                  *)
(* convert_convinv_1d_to_2d, which fails with InverseNotMaterialized (the  *)
(* AttributeError of the read of W_inverse) and returns no convolution.    *)
C2_UnmaterializedRewriteFails ==
    NeverMaterialized =>
        /\ pc # "converted"
        /\ pc = "failed" => err = InverseNotMaterialized
        /\ pc = "cv_convinv" => loc.i = 1
        /\ pc # "failed" => ENABLED RewriteNext
        /\ \A k \in 1..Len(glow.convinv) : ~Is2d(glow.convinv[k])

C2_Failed ==
    NeverMaterialized /\ pc = "failed" /\ err = InverseNotMaterialized

(* C3: whenever the 1-D convolution accepts the input, the convolution     *)
(* convert_conv_1d_to_2d returns accepts the input with a trailing axis    *)
(* of size 1 and gives the same elements, under the 1-D result's shape     *)
(* with a trailing axis of size 1.                                         *)
C3_RewriteEquivalence ==
    /\ pc = "conv_done" => loc.y2 = AddTrailingAxis(loc.y1)
    /\ pc = "failed" => loc.y1.err # NoError

C3_Strided ==
    /\ pc = "conv_done"
    /\ loc.conv1d.stride[1] = 2
    /\ loc.conv1d.dilation[1] = 2
    /\ loc.conv1d.padding[1] = 1
    /\ Size(loc.conv1d.weight, 2) = 2
    /\ Size(loc.conv1d.weight, 1) = 2
    /\ loc.y1.shape[3] >= 2
    /\ \E i \in 1..Len(loc.y1.data) : loc.y1.data[i] # 0

(* C4: every stage convert_WN_1d_to_2d_ has returned from holds 2-D        *)
(* convolutions only.                                                      *)
C4_StageFullyRewritten ==
    \A i \in 1..loc.wn_done : AllTwoD(glow.WN[i])

C5Config ==
    /\ glow.n_flows = 12
    /\ glow.n_early_every = 4
    /\ glow.n_early_size = 2
    /\ glow.n_group = 8
    /\ loc.z_channels = 8

(* C5: with 12 flows, a period of 4, 2 early channels, 8 groups and z of   *)
(* 8 channels, the loop injects at the stages k > 0 that are multiples of  *)
(* 4 and at no other, every injection finds at least 2 channels in z and   *)
(* takes 2, and after stage 0 z is empty and the channels injected add up  *)
(* to the channels z held after the partition.                             *)
C5_BudgetConserved ==
    C5Config =>
        /\ \A e \in 1..Len(loc.inj) :
              /\ loc.inj[e].k > 0
              /\ loc.inj[e].k % 4 = 0
              /\ loc.inj[e].held >= 2
              /\ loc.inj[e].got = 2
        /\ pc = "flow" =>
              {loc.inj[e].k : e \in 1..Len(loc.inj)}
                 = {k \in (loc.k + 1)..11 : k > 0 /\ k % 4 = 0}
        /\ loc.k = 0 - 1 =>
              /\ Len(loc.z.ch) = 0
              /\ loc.zrem0 = 4
              /\ SumSeq([e \in 1..Len(loc.inj) |-> loc.inj[e].got]) = loc.zrem0

C5_Done == C5Config /\ pc = "done" /\ Len(loc.inj) = 2

(* C6: for kernel_size >= stride >= 1 the time length after the trim is    *)
(* the input's time length times the stride.                               *)
C6_TrimLength ==
    (/\ loc.trimmed # <<>>
     /\ glow.upsample.stride[1] >= 1
     /\ glow.upsample.kernel_size[1] >= glow.upsample.stride[1])
    => loc.trimmed[3] = loc.mel_time * glow.upsample.stride[1]

(* C7: an injection that finds fewer than n_early_size channels in z ends  *)
(* the call with BudgetExceeded.                                           *)
C7_UnderflowFails ==
    \A e \in 1..Len(loc.inj) :
        loc.inj[e].held < glow.n_early_size =>
            pc = "failed" /\ err = BudgetExceeded

(* C8: a stage entered with an odd number of audio channels ends the call  *)
(* with ShapeMismatch.                                                     *)
C8_OddFails ==
    [][(pc = "flow" /\ loc.audio.ch % 2 = 1)
         => (pc' = "failed" /\ err' = ShapeMismatch)]_vars

(* C9: when the trimmed time length tt is a positive multiple of n_group,  *)
(* the reshape succeeds with L = tt / n_group and gives the conditioning   *)
(* tensor [B, C * n_group, L, 1] whose element at channel m * n_group + g, *)
(* position l is the upsampled element at mel channel m, time              *)
(* l * n_group + g.                                                        *)
C9_GroupInterleave ==
    (/\ loc.trimmed # <<>>
     /\ pc # "group"
     /\ loc.trimmed[3] > 0
     /\ loc.trimmed[3] % glow.n_group = 0)
    => LET B == loc.up[1]
           C == loc.up[2]
           G == glow.n_group
           L == loc.trimmed[3] \div G
       IN  /\ loc.failed_at # "group"
           /\ loc.length_spect_group = L
           /\ loc.spect.shape = <<B, C * G, L, 1>>
           /\ \A b \in 0..(B - 1), m \in 0..(C - 1), g \in 0..(G - 1),
                 l \in 0..(L - 1) :
                 SrcOffset(loc.spect, <<b, m * G + g, l, 0>>)
                    = Dot(<<b, m, l * G + g, 0>>, ContigStrides(loc.up))

(* C10: the sigma the traced call scales audio by, and the sigma of the    *)
(* eager pass, are the command line's sigma.                               *)
C10_TracedSigmaIsCli ==
    pc = "exported" =>
        /\ loc.eager_sigma = args.sigma_infer
        /\ loc.exported.sigma = args.sigma_infer
=============================================================================
